---- MODULE Spec2Model ----
(***************************************************************************)
(* State-machine model of app.py: a Flask application over two tables      *)
(* (users, notifications) with cookie sessions, a login gate and an admin  *)
(* gate.  Every request of a client is a sequence of database              *)
(* transactions; requests of different clients interleave between them.    *)
(*                                                                         *)
(* Text values that the handlers pass through str.strip() are sequences of *)
(* one-character strings; values used only by equality (password, role)    *)
(* are plain strings.                                                      *)
(***************************************************************************)
EXTENDS Integers, Sequences, FiniteSets, TLC

VARIABLES
    users,             \* table users: set of rows
    notifications,     \* table notifications: set of rows
    user_seq,          \* last value of the serial users.id
    notification_seq,  \* last value of the serial notifications.id
    username_unique,   \* does the existing users table carry UNIQUE(username)
    session,           \* per client: the Flask session (a dict)
    pc,                \* per client: position of its request in flight
    req,               \* per client: the request in flight
    loaded,            \* per client: the row the handler's ORM session loaded
    ev,                \* the last step taken and the response it produced
    nreq               \* number of store-writing requests admitted so far

vars == <<users, notifications, user_seq, notification_seq, username_unique,
          session, pc, req, loaded, ev, nreq>>

store == <<users, notifications, user_seq, notification_seq>>

tables == <<users, notifications>>

-----------------------------------------------------------------------------
(* Bounds *)

\* store-writing requests admitted in one behaviour; it also bounds the serials
MaxWrites == 2

Clients == {"c1", "c2"}

\* the ids a request can name: every id ever assigned, and the next one
UserIds == 1..(user_seq + 1)
NotificationIds == 1..(notification_seq + 1)

\* Python None, and the empty dict / empty form
None == [k \in {} |-> 0]
NoForm == [k \in {} |-> 0]

-----------------------------------------------------------------------------
(* str.strip() and request.form.get(key, default) *)

IsSpace(ch) == ch = " "

RECURSIVE lstrip(_)
lstrip(s) == IF s # <<>> /\ IsSpace(Head(s)) THEN lstrip(Tail(s)) ELSE s

RECURSIVE rstrip(_)
rstrip(s) == IF s # <<>> /\ IsSpace(s[Len(s)]) THEN rstrip(SubSeq(s, 1, Len(s) - 1)) ELSE s

strip(s) == rstrip(lstrip(s))

form_get(form, key, default) == IF key \in DOMAIN form THEN form[key] ELSE default

-----------------------------------------------------------------------------
(* Inputs: the forms the clients submit *)

LoginForms ==
    { [username |-> <<" ", "a">>, password |-> "p"],
      [username |-> <<"a">>, password |-> "q"],
      [username |-> <<"b">>, password |-> "q"],
      [username |-> <<"c">>, password |-> "q"] }

\* a form can leave a field out, and carries whatever role text the client sends
UserForms ==
    { [username |-> <<" ", "b">>, password |-> "", fullname |-> <<"f">>],
      [username |-> <<"c">>, password |-> "q", description |-> <<"d", " ">>, role |-> "guest"] }

NotificationForms ==
    { [content |-> <<" ", "x">>, note |-> <<"z">>] }

-----------------------------------------------------------------------------
(* Helper utilities *)

\* s.scalar(select(User).where(User.username == username)): the first row of
\* the result, None when it is empty.  The query has no ORDER BY, so with
\* several matching rows any of them can be the first.
get_user_by_username(username) ==
    LET rows == {u \in users : u.username = username}
    IN IF rows = {} THEN {None} ELSE rows

get_user_by_id(user_id) ==
    IF \E u \in users : u.id = user_id
    THEN CHOOSE u \in users : u.id = user_id
    ELSE None

get_notification(notification_id) ==
    IF \E n \in notifications : n.id = notification_id
    THEN CHOOSE n \in notifications : n.id = notification_id
    ELSE None

\* 'user_id' in session
logged_in(c) == "user_id" \in DOMAIN session[c]

-----------------------------------------------------------------------------
(* Responses *)

\* kind: "redirect" (to the route target), "render" (of the template target),
\* "abort" (target 404) or "error" (an unhandled exception, target 500)
Resp(c, route, kind, target, flash) ==
    [client |-> c, route |-> route, kind |-> kind, target |-> target,
     flash |-> flash, list |-> <<>>]

\* no response is on its way to a client
NoResponse == Resp("", "", "", "", "")

\* client c can send a request
Idle(c) == ev = NoResponse /\ pc[c] = "idle"

Init ==
    /\ username_unique \in BOOLEAN
    /\ users = { [id |-> 1, username |-> <<"a">>, password |-> "p",
                 fullname |-> <<>>, description |-> <<>>, role |-> "admin"],
                [id |-> 2, username |-> <<"b">>, password |-> "q",
                 fullname |-> <<>>, description |-> <<>>, role |-> "admin"] }
    /\ notifications = { [id |-> 1, content |-> <<"x">>, note |-> <<>>] }
    /\ user_seq = 2
    /\ notification_seq = 1
    /\ session = [c \in Clients |-> None]
    /\ pc = [c \in Clients |-> "idle"]
    /\ req = [c \in Clients |-> None]
    /\ loaded = [c \in Clients |-> None]
    /\ ev = NoResponse
    /\ nreq = 0

-----------------------------------------------------------------------------
(* Auth routes *)

login_failure_flash == "danger: Sai username hoac password."

\* a login that clears the session when the credentials are rejected
login_clears_on_failure(c, method, form) ==
    /\ Idle(c)
    /\ IF method = "POST"
       THEN LET username == strip(form_get(form, "username", <<>>))
                password == form_get(form, "password", "")
            IN \E user \in get_user_by_username(username) :
                 IF user # None /\ password = user.password
                 THEN /\ session' = [session EXCEPT ![c] =
                             [user_id |-> user.id, username |-> user.username,
                              role |-> user.role]]
                      /\ ev' = Resp(c, "login", "redirect", "index",
                                    "success: Dang nhap thanh cong.")
                 ELSE /\ session' = [session EXCEPT ![c] = None]
                      /\ ev' = Resp(c, "login", "render", "login.html",
                                    login_failure_flash)
       ELSE /\ UNCHANGED session
            /\ ev' = Resp(c, "login", "render", "login.html", "")
    /\ UNCHANGED <<store, username_unique, pc, req, loaded, nreq>>

login(c, method, form) ==
    /\ Idle(c)
    /\ IF method = "POST"
       THEN LET username == strip(form_get(form, "username", <<>>))
                password == form_get(form, "password", "")
            IN \E user \in get_user_by_username(username) :
                 IF user # None /\ password = user.password
                 THEN /\ session' = [session EXCEPT ![c] =
                             [user_id |-> user.id, username |-> user.username,
                              role |-> user.role]]
                      /\ ev' = Resp(c, "login", "redirect", "index",
                                    "success: Dang nhap thanh cong.")
                 ELSE /\ UNCHANGED session
                      /\ ev' = Resp(c, "login", "render", "login.html",
                                    login_failure_flash)
       ELSE /\ UNCHANGED session
            /\ ev' = Resp(c, "login", "render", "login.html", "")
    /\ UNCHANGED <<store, username_unique, pc, req, loaded, nreq>>

\* logout that forgets the cached username and role but keeps user_id
logout_keeps_user_id(c) ==
    /\ Idle(c)
    /\ session' = [session EXCEPT ![c] =
                     IF logged_in(c) THEN [user_id |-> session[c].user_id] ELSE None]
    /\ ev' = Resp(c, "logout", "redirect", "login", "info: Da dang xuat.")
    /\ UNCHANGED <<store, username_unique, pc, req, loaded, nreq>>

logout(c) ==
    /\ Idle(c)
    /\ session' = [session EXCEPT ![c] = None]
    /\ ev' = Resp(c, "logout", "redirect", "login", "info: Da dang xuat.")
    /\ UNCHANGED <<store, username_unique, pc, req, loaded, nreq>>

-----------------------------------------------------------------------------
(* Session-gated routes.  login_required reads only the session, and the    *)
(* wrapped handler makes one read of the store.                             *)

\* select(Notification).order_by(Notification.id.desc()): the rows, greatest id first
RECURSIVE order_by_id_desc(_)
order_by_id_desc(rows) ==
    IF rows = {} THEN <<>>
    ELSE LET top == CHOOSE r \in rows : \A o \in rows : o.id <= r.id
         IN <<top>> \o order_by_id_desc(rows \ {top})

\* select(User).order_by(User.id): the rows, least id first
RECURSIVE order_by_id(_)
order_by_id(rows) ==
    IF rows = {} THEN <<>>
    ELSE LET low == CHOOSE r \in rows : \A o \in rows : r.id <= o.id
         IN <<low>> \o order_by_id(rows \ {low})

login_required(c, route, id) ==
    /\ Idle(c)
    /\ ~logged_in(c)
    /\ ev' = Resp(c, route, "redirect", "login", "")
    /\ UNCHANGED <<store, username_unique, session, pc, req, loaded, nreq>>

index(c) ==
    /\ Idle(c)
    /\ logged_in(c)
    /\ ev' = Resp(c, "index", "redirect", "notifications", "")
    /\ UNCHANGED <<store, username_unique, session, pc, req, loaded, nreq>>

\* a notification list that reads the rows least id first
route_notifications_ascending(c) ==
    /\ Idle(c)
    /\ logged_in(c)
    /\ ev' = [Resp(c, "notifications", "render", "notifications.html", "")
                EXCEPT !.list = order_by_id(notifications)]
    /\ UNCHANGED <<store, username_unique, session, pc, req, loaded, nreq>>

route_notifications(c) ==
    /\ Idle(c)
    /\ logged_in(c)
    /\ ev' = [Resp(c, "notifications", "render", "notifications.html", "")
                EXCEPT !.list = order_by_id_desc(notifications)]
    /\ UNCHANGED <<store, username_unique, session, pc, req, loaded, nreq>>

notification_detail(c, notification_id) ==
    /\ Idle(c)
    /\ logged_in(c)
    /\ LET notif == get_notification(notification_id)
       IN IF notif = None
          THEN ev' = Resp(c, "notification_detail", "abort", "404", "")
          ELSE ev' = [Resp(c, "notification_detail", "render", "notification_detail.html", "")
                        EXCEPT !.list = <<notif>>]
    /\ UNCHANGED <<store, username_unique, session, pc, req, loaded, nreq>>

user_detail(c, user_id) ==
    /\ Idle(c)
    /\ logged_in(c)
    /\ LET u == get_user_by_id(user_id)
       IN IF u = None
          THEN ev' = Resp(c, "user_detail", "abort", "404", "")
          ELSE ev' = [Resp(c, "user_detail", "render", "user_detail.html", "")
                        EXCEPT !.list = <<u>>]
    /\ UNCHANGED <<store, username_unique, session, pc, req, loaded, nreq>>

-----------------------------------------------------------------------------------------------------------------------------------------------------
(* Admin-gated routes.  The gate reads the user row in a transaction of its *)
(* own; the wrapped handler then opens its own ORM session.  A GET handler  *)
(* writes nothing and is answered in the step of the gate; a POST handler   *)
(* runs in the steps of its transaction, between which the requests of the  *)
(* other clients commit.                                                    *)

Request(route, method, id, form) ==
    [route |-> route, method |-> method, id |-> id, form |-> form]

AdminRequests ==
    {Request("notification_add", "GET", 0, NoForm)}
    \cup {Request("notification_add", "POST", 0, f) : f \in NotificationForms}
    \cup {Request("notification_edit", "GET", i, NoForm) : i \in NotificationIds}
    \cup {Request("notification_edit", "POST", i, f) : i \in NotificationIds, f \in NotificationForms}
    \cup {Request("notification_delete", "POST", i, NoForm) : i \in NotificationIds}
    \cup {Request("users", "GET", 0, NoForm)}
    \cup {Request("user_add", "GET", 0, NoForm)}
    \cup {Request("user_add", "POST", 0, f) : f \in UserForms}
    \cup {Request("user_edit", "GET", i, NoForm) : i \in UserIds}
    \cup {Request("user_edit", "POST", i, f) : i \in UserIds, f \in UserForms}
    \cup {Request("user_delete", "POST", i, NoForm) : i \in UserIds}

denied_flash == "danger: Ban khong co quyen truy cap (can admin)."

\* GET /notifications/add
notification_add_get(c) == Resp(c, "notification_add", "render", "notification_form.html", "")

\* GET /notifications/edit/<id>
notification_edit_get(c, notification_id) ==
    LET n == get_notification(notification_id)
    IN IF n = None
       THEN Resp(c, "notification_edit", "abort", "404", "")
       ELSE [Resp(c, "notification_edit", "render", "notification_form.html", "")
               EXCEPT !.list = <<n>>]

\* GET /users
route_users(c) ==
    [Resp(c, "users", "render", "users.html", "") EXCEPT !.list = order_by_id(users)]

\* GET /users/add
user_add_get(c) == Resp(c, "user_add", "render", "user_form.html", "")

\* GET /users/edit/<id>
user_edit_get(c, user_id) ==
    LET u == get_user_by_id(user_id)
    IN IF u = None
       THEN Resp(c, "user_edit", "abort", "404", "")
       ELSE [Resp(c, "user_edit", "render", "user_form.html", "") EXCEPT !.list = <<u>>]

handle_get(c, r) ==
    CASE r.route = "notification_add" -> notification_add_get(c)
      [] r.route = "notification_edit" -> notification_edit_get(c, r.id)
      [] r.route = "users" -> route_users(c)
      [] r.route = "user_add" -> user_add_get(c)
      [] r.route = "user_edit" -> user_edit_get(c, r.id)

\* a gate that lets every existing user through
admin_gate_any_user(c) ==
    IF ~logged_in(c)
    THEN "login"
    ELSE LET user == get_user_by_id(session[c].user_id)
         IN IF user = None THEN "denied" ELSE "pass"

\* a gate that trusts the role cached in the session at login
admin_gate_cached_role(c) ==
    IF ~logged_in(c)
    THEN "login"
    ELSE IF session[c].role # "admin" THEN "denied" ELSE "pass"

\* a gate that lets a session through when its user row is gone
admin_gate_missing_row_passes(c) ==
    IF ~logged_in(c)
    THEN "login"
    ELSE LET user == get_user_by_id(session[c].user_id)
         IN IF user # None /\ user.role # "admin" THEN "denied" ELSE "pass"

\* a gate that also wants the role cached in the session to be admin
admin_gate_of_cached_and_stored(sess) ==
    IF "user_id" \notin DOMAIN sess
    THEN "login"
    ELSE LET user == get_user_by_id(sess.user_id)
         IN IF user = None \/ user.role # "admin" \/ sess.role # "admin"
            THEN "denied" ELSE "pass"

\* the decision of the admin gate on a session dict: "login", "denied" or "pass"
admin_gate_of(sess) ==
    IF "user_id" \notin DOMAIN sess
    THEN "login"
    ELSE LET user == get_user_by_id(sess.user_id)
         IN IF user = None \/ user.role # "admin" THEN "denied" ELSE "pass"

\* the decision of the admin gate for client c
admin_gate(c) == admin_gate_of(session[c])

\* a gate whose handlers run on every method, with no test for POST
admin_required_any_method(c, r) ==
    /\ Idle(c)
    /\ CASE admin_gate(c) = "login" ->
              /\ ev' = Resp(c, r.route, "redirect", "login", "")
              /\ UNCHANGED <<pc, req, nreq>>
         [] admin_gate(c) = "denied" ->
              /\ ev' = Resp(c, r.route, "redirect", "index", denied_flash)
              /\ UNCHANGED <<pc, req, nreq>>
         [] admin_gate(c) = "pass" ->
              /\ nreq < MaxWrites
              /\ nreq' = nreq + 1
              /\ pc' = [pc EXCEPT ![c] = "gated"]
              /\ req' = [req EXCEPT ![c] = r]
              /\ UNCHANGED ev
    /\ UNCHANGED <<store, username_unique, session, loaded>>

admin_required(c, r) ==
    /\ Idle(c)
    /\ CASE admin_gate(c) = "login" ->
              /\ ev' = Resp(c, r.route, "redirect", "login", "")
              /\ UNCHANGED <<pc, req, nreq>>
         [] admin_gate(c) = "denied" ->
              /\ ev' = Resp(c, r.route, "redirect", "index", denied_flash)
              /\ UNCHANGED <<pc, req, nreq>>
         [] admin_gate(c) = "pass" /\ r.method = "GET" ->
              /\ ev' = handle_get(c, r)
              /\ UNCHANGED <<pc, req, nreq>>
         [] admin_gate(c) = "pass" /\ r.method = "POST" ->
              /\ nreq < MaxWrites
              /\ nreq' = nreq + 1
              /\ pc' = [pc EXCEPT ![c] = "gated"]
              /\ req' = [req EXCEPT ![c] = r]
              /\ UNCHANGED ev
    /\ UNCHANGED <<store, username_unique, session, loaded>>

\* the response that ends client c's request in flight
Reply(c, kind, target, flash) == Resp(c, req[c].route, kind, target, flash)

Done(c) ==
    /\ pc' = [pc EXCEPT ![c] = "idle"]
    /\ req' = [req EXCEPT ![c] = None]
    /\ loaded' = [loaded EXCEPT ![c] = None]

Running(c, route, at) ==
    ev = NoResponse /\ pc[c] = at /\ req[c] # None /\ req[c].route = route

(* notifications *)

\* an add that numbers the new row one past the number of rows
notification_add_counts_rows(c) ==
    /\ Running(c, "notification_add", "gated")
    /\ LET content == strip(form_get(req[c].form, "content", <<>>))
           note == strip(form_get(req[c].form, "note", <<>>))
           next_id == Cardinality(notifications) + 1
       IN /\ notification_seq' = notification_seq + 1
          /\ notifications' = {n \in notifications : n.id # next_id} \cup
                {[id |-> next_id, content |-> content, note |-> note]}
          /\ ev' = Reply(c, "redirect", "notifications", "success: Thong bao da duoc them.")
    /\ Done(c)
    /\ UNCHANGED <<users, user_seq, username_unique, session, nreq>>

\* POST /notifications/add: INSERT with the next value of the serial
notification_add(c) ==
    /\ Running(c, "notification_add", "gated")
    /\ LET content == strip(form_get(req[c].form, "content", <<>>))
           note == strip(form_get(req[c].form, "note", <<>>))
       IN /\ notification_seq' = notification_seq + 1
          /\ notifications' = notifications \cup
                {[id |-> notification_seq + 1, content |-> content, note |-> note]}
          /\ ev' = Reply(c, "redirect", "notifications", "success: Thong bao da duoc them.")
    /\ Done(c)
    /\ UNCHANGED <<users, user_seq, username_unique, session, nreq>>

\* POST /notifications/edit/<id>: s.get(Notification, notification_id)
notification_edit_load(c) ==
    /\ Running(c, "notification_edit", "gated")
    /\ LET n == get_notification(req[c].id)
       IN IF n = None
          THEN /\ ev' = Reply(c, "abort", "404", "")
               /\ Done(c)
          ELSE /\ pc' = [pc EXCEPT ![c] = "loaded"]
               /\ loaded' = [loaded EXCEPT ![c] = n]
               /\ UNCHANGED ev
               /\ UNCHANGED req
    /\ UNCHANGED <<store, username_unique, session, nreq>>

\* The attributes assigned a value that differs from the loaded one: the
\* unit of work flushes an UPDATE of these columns only.
Dirty(row, new) == {k \in DOMAIN new : new[k] # row[k]}

\* UPDATE ... SET <dirty columns> WHERE id = row.id
Update(table, row, new) ==
    {IF r.id = row.id
     THEN [k \in DOMAIN r |-> IF k \in Dirty(row, new) THEN new[k] ELSE r[k]]
     ELSE r : r \in table}

\* the values notification_edit assigns to the loaded row
notification_edit_values(f) ==
    [content |-> strip(form_get(f, "content", <<>>)),
     note |-> strip(form_get(f, "note", <<>>))]

notification_edit_commit(c) ==
    /\ Running(c, "notification_edit", "loaded")
    /\ LET n == loaded[c]
           new == notification_edit_values(req[c].form)
       IN IF Dirty(n, new) # {} /\ get_notification(n.id) = None
          THEN \* StaleDataError: the UPDATE matched no row
               /\ ev' = Reply(c, "error", "500", "")
               /\ UNCHANGED notifications
          ELSE /\ notifications' = Update(notifications, n, new)
               /\ ev' = Reply(c, "redirect", "notifications",
                              "success: Thong bao da duoc cap nhat.")
    /\ Done(c)
    /\ UNCHANGED <<users, user_seq, notification_seq, username_unique, session, nreq>>

notification_delete_load(c) ==
    /\ Running(c, "notification_delete", "gated")
    /\ LET n == get_notification(req[c].id)
       IN IF n = None
          THEN /\ ev' = Reply(c, "abort", "404", "")
               /\ Done(c)
          ELSE /\ pc' = [pc EXCEPT ![c] = "loaded"]
               /\ loaded' = [loaded EXCEPT ![c] = n]
               /\ UNCHANGED ev
               /\ UNCHANGED req
    /\ UNCHANGED <<store, username_unique, session, nreq>>

\* DELETE ... WHERE id = n.id; a DELETE that matches no row only warns
notification_delete_commit(c) ==
    /\ Running(c, "notification_delete", "loaded")
    /\ notifications' = {r \in notifications : r.id # loaded[c].id}
    /\ ev' = Reply(c, "redirect", "notifications", "warning: Thong bao da bi xoa.")
    /\ Done(c)
    /\ UNCHANGED <<users, user_seq, notification_seq, username_unique, session, nreq>>

(* users *)

duplicate_flash == "danger: Username da ton tai."

\* a pre-check that compares the username as submitted, untrimmed
user_add_check_untrimmed(c) ==
    /\ Running(c, "user_add", "gated")
    /\ LET username == form_get(req[c].form, "username", <<>>)
       IN \E exists \in get_user_by_username(username) :
            IF exists # None
            THEN /\ ev' = Reply(c, "render", "user_form.html", duplicate_flash)
                 /\ Done(c)
            ELSE /\ pc' = [pc EXCEPT ![c] = "loaded"]
                 /\ UNCHANGED ev
                 /\ UNCHANGED <<req, loaded>>
    /\ UNCHANGED <<store, username_unique, session, nreq>>

\* POST /users/add: the pre-check of the username
user_add_check(c) ==
    /\ Running(c, "user_add", "gated")
    /\ LET username == strip(form_get(req[c].form, "username", <<>>))
       IN \E exists \in get_user_by_username(username) :
            IF exists # None
            THEN /\ ev' = Reply(c, "render", "user_form.html", duplicate_flash)
                 /\ Done(c)
            ELSE /\ pc' = [pc EXCEPT ![c] = "loaded"]
                 /\ UNCHANGED ev
                 /\ UNCHANGED <<req, loaded>>
    /\ UNCHANGED <<store, username_unique, session, nreq>>

\* INSERT of the new user; under UNIQUE(username) a duplicate raises
\* IntegrityError, and the serial value it drew is not given back
user_add_commit(c) ==
    /\ Running(c, "user_add", "loaded")
    /\ user_seq' = user_seq + 1
    /\ LET f == req[c].form
           u == [id |-> user_seq + 1,
                 username |-> strip(form_get(f, "username", <<>>)),
                 password |-> form_get(f, "password", ""),
                 fullname |-> strip(form_get(f, "fullname", <<>>)),
                 description |-> strip(form_get(f, "description", <<>>)),
                 role |-> form_get(f, "role", "user")]
       IN IF username_unique /\ \E o \in users : o.username = u.username
          THEN /\ ev' = Reply(c, "error", "500", "")
               /\ UNCHANGED users
          ELSE /\ users' = users \cup {u}
               /\ ev' = Reply(c, "redirect", "users", "success: Nguoi dung da duoc them.")
    /\ Done(c)
    /\ UNCHANGED <<notifications, notification_seq, username_unique, session, nreq>>

user_edit_load(c) ==
    /\ Running(c, "user_edit", "gated")
    /\ LET u == get_user_by_id(req[c].id)
       IN IF u = None
          THEN /\ ev' = Reply(c, "abort", "404", "")
               /\ Done(c)
          ELSE /\ pc' = [pc EXCEPT ![c] = "loaded"]
               /\ loaded' = [loaded EXCEPT ![c] = u]
               /\ UNCHANGED ev
               /\ UNCHANGED req
    /\ UNCHANGED <<store, username_unique, session, nreq>>

\* the values user_edit assigns to the loaded row
user_edit_values(u, f) ==
    LET new_password == form_get(f, "password", "")
    IN [username |-> strip(form_get(f, "username", <<>>)),
        password |-> IF new_password # "" THEN new_password ELSE u.password,
        fullname |-> strip(form_get(f, "fullname", <<>>)),
        description |-> strip(form_get(f, "description", <<>>)),
        role |-> form_get(f, "role", "user")]

user_edit_commit(c) ==
    /\ Running(c, "user_edit", "loaded")
    /\ LET u == loaded[c]
           new == user_edit_values(u, req[c].form)
       IN IF Dirty(u, new) # {} /\ get_user_by_id(u.id) = None
          THEN \* StaleDataError: the UPDATE matched no row
               /\ ev' = Reply(c, "error", "500", "")
               /\ UNCHANGED users
          ELSE IF /\ username_unique
                  /\ "username" \in Dirty(u, new)
                  /\ \E o \in users : o.id # u.id /\ o.username = new.username
               THEN \* IntegrityError
                    /\ ev' = Reply(c, "error", "500", "")
                    /\ UNCHANGED users
               ELSE /\ users' = Update(users, u, new)
                    /\ ev' = Reply(c, "redirect", "users",
                                   "success: Nguoi dung da duoc cap nhat.")
    /\ Done(c)
    /\ UNCHANGED <<notifications, user_seq, notification_seq, username_unique, session, nreq>>

self_delete_flash == "danger: Ban khong the xoa chinh minh."

\* user_delete without the guard against deleting oneself
user_delete_load_unguarded(c) ==
    /\ Running(c, "user_delete", "gated")
    /\ LET u == get_user_by_id(req[c].id)
       IN IF u = None
          THEN /\ ev' = Reply(c, "abort", "404", "")
               /\ Done(c)
          ELSE /\ pc' = [pc EXCEPT ![c] = "loaded"]
               /\ loaded' = [loaded EXCEPT ![c] = u]
               /\ UNCHANGED ev
               /\ UNCHANGED req
    /\ UNCHANGED <<store, username_unique, session, nreq>>

user_delete_load(c) ==
    /\ Running(c, "user_delete", "gated")
    /\ IF form_get(session[c], "user_id", 0) = req[c].id
       THEN /\ ev' = Reply(c, "redirect", "users", self_delete_flash)
            /\ Done(c)
       ELSE LET u == get_user_by_id(req[c].id)
            IN IF u = None
               THEN /\ ev' = Reply(c, "abort", "404", "")
                    /\ Done(c)
               ELSE /\ pc' = [pc EXCEPT ![c] = "loaded"]
                    /\ loaded' = [loaded EXCEPT ![c] = u]
                    /\ UNCHANGED ev
                    /\ UNCHANGED req
    /\ UNCHANGED <<store, username_unique, session, nreq>>

user_delete_commit(c) ==
    /\ Running(c, "user_delete", "loaded")
    /\ users' = {r \in users : r.id # loaded[c].id}
    /\ ev' = Reply(c, "redirect", "users", "warning: Nguoi dung da bi xoa.")
    /\ Done(c)
    /\ UNCHANGED <<notifications, user_seq, notification_seq, username_unique, session, nreq>>

-----------------------------------------------------------------------------

\* The server sends the response of the last step to its client.  The model
\* holds one response at a time: the next step starts once it has gone out.
respond ==
    /\ ev # NoResponse
    /\ ev' = NoResponse
    /\ UNCHANGED <<store, username_unique, session, pc, req, loaded, nreq>>

Next ==
    \/ \E c \in Clients, form \in LoginForms : login(c, "POST", form)
    \/ \E c \in Clients : login(c, "GET", NoForm)
    \/ \E c \in Clients : logout(c)
    \/ \E c \in Clients : login_required(c, "index", 0)
    \/ \E c \in Clients : login_required(c, "notifications", 0)
    \/ \E c \in Clients, i \in NotificationIds : login_required(c, "notification_detail", i)
    \/ \E c \in Clients, i \in UserIds : login_required(c, "user_detail", i)
    \/ \E c \in Clients : index(c)
    \/ \E c \in Clients : route_notifications(c)
    \/ \E c \in Clients, i \in NotificationIds : notification_detail(c, i)
    \/ \E c \in Clients, i \in UserIds : user_detail(c, i)
    \/ \E c \in Clients, r \in AdminRequests : admin_required(c, r)
    \/ \E c \in Clients : notification_add(c)
    \/ \E c \in Clients : notification_edit_load(c)
    \/ \E c \in Clients : notification_edit_commit(c)
    \/ \E c \in Clients : notification_delete_load(c)
    \/ \E c \in Clients : notification_delete_commit(c)
    \/ \E c \in Clients : user_add_check(c)
    \/ \E c \in Clients : user_add_commit(c)
    \/ \E c \in Clients : user_edit_load(c)
    \/ \E c \in Clients : user_edit_commit(c)
    \/ \E c \in Clients : user_delete_load(c)
    \/ \E c \in Clients : user_delete_commit(c)
    \/ respond

Spec == Init /\ [][Next]_vars

-----------------------------------------------------------------------------
(* Properties *)

\* the user row of client c's session, None when the row is gone
session_user(c) == get_user_by_id(session[c].user_id)

AdminRoutes ==
    {"notification_add", "notification_edit", "notification_delete",
     "users", "user_add", "user_edit", "user_delete"}

GatedRoutes ==
    AdminRoutes \cup {"index", "notifications", "notification_detail", "user_detail"}

\* a step in which client c's request reaches the gate of a gated route
GateStep(c) == Idle(c) /\ ev'.client = c /\ ev'.route \in GatedRoutes

\* a step in which client c's request reaches the admin gate
AdminGateStep(c) ==
    /\ Idle(c)
    /\ \/ ev'.client = c /\ ev'.route \in AdminRoutes
       \/ pc'[c] = "gated"
    /\ \E r \in AdminRequests : admin_required(c, r)

Credentials(form) ==
    {u \in users : /\ u.username = strip(form_get(form, "username", <<>>))
                   /\ u.password = form_get(form, "password", "")}

\* C1: a login POST establishes a session (user_id, username, role of the
\* stored row) if and only if some user row has the submitted (trimmed)
\* username and exactly the submitted password; otherwise no session is
\* established and the one generic failure message is flashed.
C1_LoginIffCredentials ==
    [][\A c \in Clients, form \in LoginForms :
         login(c, "POST", form) =>
           IF Credentials(form) # {}
           THEN /\ ev'.kind = "redirect"
                /\ \E u \in Credentials(form) :
                     session'[c] = [user_id |-> u.id, username |-> u.username,
                                    role |-> u.role]
           ELSE /\ session' = session
                /\ ev'.kind = "render"
                /\ ev'.flash = login_failure_flash]_vars

\* C2: logout is always possible and empties the session; while a session is
\* empty (from a logout to the next successful login) every request on a
\* gated route is answered by the redirect to login, no handler runs and
\* nothing in the store changes; only a successful login fills the session.
C2_LogoutThenLoginRedirects ==
    /\ [](\A c \in Clients :
            /\ Idle(c) => ENABLED logout(c)
            /\ ~logged_in(c) => pc[c] = "idle")
    /\ [][\A c \in Clients :
            /\ logout(c) => session'[c] = None /\ UNCHANGED store
            /\ ~logged_in(c) =>
                 /\ GateStep(c) =>
                      /\ ev'.kind = "redirect" /\ ev'.target = "login"
                      /\ UNCHANGED <<store, pc, req, loaded, session>>
                 /\ ev'.client = c => pc'[c] = "idle" /\ UNCHANGED store
                 /\ logged_in(c)' =>
                      /\ ev'.client = c /\ ev'.route = "login" /\ ev'.kind = "redirect"
                      /\ \E form \in LoginForms : login(c, "POST", form)]_vars

C2_Witness ==
    /\ ev.kind = "redirect" /\ ev.target = "login"
    /\ ev.route \in GatedRoutes
    /\ session[ev.client] = None
    /\ nreq > 0

\* C3: an admin-only request of a logged-in session whose user's stored role
\* is not admin is answered by the redirect to the index with the denial
\* notice; no handler runs and neither table changes.
C3_NonAdminDenied ==
    [][\A c \in Clients :
         (/\ logged_in(c)
          /\ session_user(c) # None
          /\ session_user(c).role # "admin"
          /\ AdminGateStep(c)) =>
           /\ ev'.kind = "redirect" /\ ev'.target = "index"
           /\ ev'.flash = denied_flash
           /\ pc'[c] = "idle"
           /\ UNCHANGED tables]_vars

C3_Witness ==
    /\ ev.flash = denied_flash
    /\ ev.route \in AdminRoutes
    /\ logged_in(ev.client)
    /\ session_user(ev.client) # None
    /\ session_user(ev.client).role # "admin"

\* C4: once a user edit has changed a user's stored role from admin to a
\* non-admin value, the admin gate denies the next admin request of a session
\* established while that user was admin: the gate's decision for such a
\* session is "denied" in the state the commit leaves, and a request that
\* reaches the gate with the cached role still admin is denied.
C4_DowngradeImmediate ==
    [][\A c \in Clients :
         /\ \A e \in Clients :
              (/\ user_edit_commit(e)
               /\ logged_in(c)
               /\ session[c].user_id = loaded[e].id
               /\ session_user(c) # None
               /\ session_user(c).role = "admin"
               /\ session_user(c)'.role # "admin") =>
                 /\ session'[c] = session[c]
                 /\ admin_gate(c)' = "denied"
         /\ (/\ AdminGateStep(c)
             /\ logged_in(c)
             /\ session[c].role = "admin"
             /\ session_user(c) # None
             /\ session_user(c).role # "admin") =>
               /\ ev'.kind = "redirect" /\ ev'.target = "index"
               /\ ev'.flash = denied_flash
               /\ pc'[c] = "idle"
               /\ UNCHANGED <<tables, session>>]_vars

C4_Witness ==
    /\ ev.flash = denied_flash
    /\ logged_in(ev.client)
    /\ session[ev.client].role = "admin"
    /\ session_user(ev.client) # None
    /\ session_user(ev.client).role # "admin"

\* C5: whenever a step of client c's request changes the users or the
\* notifications table, the user of c's session holds role admin in the
\* store at that moment.
C5_WritesOnlyByAdmins ==
    [][\A c \in Clients :
         (ev'.client = c /\ tables' # tables) =>
           /\ logged_in(c)
           /\ session_user(c) # None
           /\ session_user(c).role = "admin"]_vars

\* C6: no two user rows have the same username.
C6_UsernamesUnique ==
    \A u \in users, v \in users : u.username = v.username => u.id = v.id

\* C7: a user-add POST whose trimmed username is the username of a row that
\* exists when the handler looks it up inserts nothing: the users table is
\* unchanged and the form is rendered again with the error.
C7_DuplicateAddRejected ==
    [][\A c \in Clients :
         (/\ user_add_check(c)
          /\ \E u \in users :
               u.username = strip(form_get(req[c].form, "username", <<>>))) =>
           /\ users' = users
           /\ ev'.kind = "render" /\ ev'.target = "user_form.html"
           /\ ev'.flash = duplicate_flash
           /\ pc'[c] = "idle"]_vars

C7_Witness ==
    /\ ev.route = "user_add"
    /\ ev.flash = duplicate_flash
    /\ Cardinality(users) = 2

\* C8: a user-delete request that names the user_id of its own session is
\* answered with the error and changes nothing, and no step of a client's
\* request removes the row of the user that client's session is logged in as.
C8_NoSelfDelete ==
    [][\A c \in Clients :
         /\ (/\ user_delete_load(c)
             /\ logged_in(c)
             /\ req[c].id = session[c].user_id) =>
               /\ ev'.kind = "redirect" /\ ev'.target = "users"
               /\ ev'.flash = self_delete_flash
               /\ pc'[c] = "idle"
               /\ UNCHANGED tables
         /\ (ev'.client = c /\ logged_in(c)) =>
               \A u \in users :
                 u.id = session[c].user_id => \E v \in users' : v.id = u.id]_vars

C8_Witness ==
    /\ ev.route = "user_delete"
    /\ ev.flash = self_delete_flash
    /\ session_user(ev.client) # None

\* C9: a user-edit POST that commits leaves the row with the submitted
\* (trimmed) username, fullname and description and the submitted role, and
\* with the submitted password, or with the password it had when the
\* password field is empty.
C9_EditOverwrites ==
    [][\A c \in Clients :
         (/\ user_edit_commit(c)
          /\ ev'.kind = "redirect"
          /\ get_user_by_id(loaded[c].id) # None) =>
           LET f == req[c].form
               old == get_user_by_id(loaded[c].id)
               new == CHOOSE u \in users' : u.id = loaded[c].id
           IN /\ new.username = strip(form_get(f, "username", <<>>))
              /\ new.fullname = strip(form_get(f, "fullname", <<>>))
              /\ new.description = strip(form_get(f, "description", <<>>))
              /\ new.role = form_get(f, "role", "user")
              /\ new.password = IF form_get(f, "password", "") = ""
                                THEN old.password
                                ELSE form_get(f, "password", "")]_vars

\* a step in which a handler of client c, past its gate, looks up the row its
\* request names and finds none
NotFoundStep(c) ==
    \/ \E i \in NotificationIds :
         get_notification(i) = None /\ notification_detail(c, i)
    \/ \E i \in UserIds :
         get_user_by_id(i) = None /\ user_detail(c, i)
    \/ /\ admin_gate(c) = "pass"
       /\ \E r \in AdminRequests :
            /\ r.method = "GET"
            /\ \/ r.route = "notification_edit" /\ get_notification(r.id) = None
               \/ r.route = "user_edit" /\ get_user_by_id(r.id) = None
            /\ admin_required(c, r)
    \/ notification_edit_load(c) /\ get_notification(req[c].id) = None
    \/ notification_delete_load(c) /\ get_notification(req[c].id) = None
    \/ user_edit_load(c) /\ get_user_by_id(req[c].id) = None

NotFound(c) ==
    /\ ev'.client = c
    /\ ev'.kind = "abort" /\ ev'.target = "404"
    /\ pc'[c] = "idle"
    /\ UNCHANGED tables

\* C10 as stated: on every detail, edit and delete path a request that is
\* past its gate and names an id with no row is answered 404, the store
\* unchanged.
C10_NotFoundEverywhere ==
    [][\A c \in Clients :
         /\ NotFoundStep(c) => NotFound(c)
         /\ (user_delete_load(c) /\ get_user_by_id(req[c].id) = None) => NotFound(c)]_vars

\* What holds of C10: the same, except for a user-delete that names the
\* user_id of its own session, which is answered by the self-deletion error
\* before any lookup; the store is unchanged there too.
C10_NotFound ==
    [][\A c \in Clients :
         /\ NotFoundStep(c) => NotFound(c)
         /\ (user_delete_load(c) /\ get_user_by_id(req[c].id) = None) =>
              IF form_get(session[c], "user_id", 0) = req[c].id
              THEN /\ ev'.flash = self_delete_flash
                   /\ pc'[c] = "idle"
                   /\ UNCHANGED tables
              ELSE NotFound(c)]_vars

\* C11: the notification list returned to a logged-in session holds exactly
\* the rows of the notifications table, each once, in strictly descending
\* order of id.
C11_ListExactDescending ==
    [][\A c \in Clients :
         route_notifications(c) =>
           LET l == ev'.list
           IN /\ logged_in(c)
              /\ ev'.kind = "render" /\ ev'.target = "notifications.html"
              /\ {l[i] : i \in 1..Len(l)} = notifications
              /\ Len(l) = Cardinality(notifications)
              /\ \A i \in 1..(Len(l) - 1) : l[i].id > l[i + 1].id]_vars

C11_Witness ==
    /\ ev.route = "notifications" /\ ev.kind = "render"
    /\ Len(ev.list) = 3
    /\ [i \in 1..3 |-> ev.list[i].id] = <<3, 2, 1>>

\* C12: a notification-add POST of a logged-in session that passed the admin
\* gate inserts exactly one new row, with the submitted (trimmed) content and
\* note and an id above every id in the table, whatever was added and deleted
\* before; the list the store then gives has that row at its head, and so
\* has every notification list returned while that row is the last one added
\* and has not been deleted.
C12_AddThenListHead ==
    [][\A c \in Clients :
         /\ notification_add(c) =>
              LET new == [id |-> notification_seq + 1,
                          content |-> strip(form_get(req[c].form, "content", <<>>)),
                          note |-> strip(form_get(req[c].form, "note", <<>>))]
              IN /\ logged_in(c)
                 /\ \A n \in notifications : n.id < new.id
                 /\ notifications' = notifications \cup {new}
                 /\ notification_seq' = new.id
                 /\ Head(order_by_id_desc(notifications')) = new
                 /\ ev'.kind = "redirect" /\ ev'.target = "notifications"
         /\ (/\ route_notifications(c)
             /\ \E n \in notifications : n.id = notification_seq) =>
              /\ ev'.list # <<>>
              /\ Head(ev'.list).id = notification_seq]_vars

\* a list returned after a delete and a later add: the added row is its head
C12_Witness ==
    /\ ev.route = "notifications" /\ ev.kind = "render"
    /\ notification_seq = 2
    /\ Cardinality(notifications) = 1
    /\ ev.list # <<>>
    /\ Head(ev.list).id = notification_seq

\* C13: the role of every user row is admin or user.
C13_RolesAdminOrUser ==
    \A u \in users : u.role \in {"admin", "user"}

\* the row an edit of client c's request in flight would leave if it
\* overwrote every field it assigns: the stored row with the submitted values
wins(row, new) == [k \in DOMAIN row |-> IF k \in DOMAIN new THEN new[k] ELSE row[k]]

\* C14: when an edit POST commits on a row that another edit has changed
\* since this one loaded it, the commit is not rejected and the stored row
\* then has the values this edit submitted in every field an edit overwrites
\* (the password only when one is submitted), for users and notifications.
C14_LastWriteWins ==
    [][\A c \in Clients :
         /\ (/\ user_edit_commit(c)
             /\ get_user_by_id(loaded[c].id) \notin {None, loaded[c]}
             /\ ~\E o \in users :
                   /\ o.id # loaded[c].id
                   /\ o.username = strip(form_get(req[c].form, "username", <<>>))) =>
               LET now == get_user_by_id(loaded[c].id)
               IN /\ ev'.kind = "redirect"
                  /\ users' = (users \ {now}) \cup
                                {wins(now, user_edit_values(now, req[c].form))}
         /\ (/\ notification_edit_commit(c)
             /\ get_notification(loaded[c].id) \notin {None, loaded[c]}) =>
               LET now == get_notification(loaded[c].id)
               IN /\ ev'.kind = "redirect"
                  /\ notifications' = (notifications \ {now}) \cup
                                {wins(now, notification_edit_values(req[c].form))}]_vars

\* the values a session dict can cache beside its user_id
CachedNames == {<<>>, <<"a">>, <<"b">>, <<"c">>}
CachedRoles == {"admin", "user", "guest"}

\* the session dicts that differ from sess in the cached username and role only
SessionVariants(sess) ==
    IF "user_id" \in DOMAIN sess
    THEN {[user_id |-> sess.user_id, username |-> n, role |-> r] :
            n \in CachedNames, r \in CachedRoles}
    ELSE {sess}

\* C15: the outcome of a request on a gated route is the one the gates decide
\* for every session dict that differs from the client's in the cached
\* username and role only: the same of login redirect, denial and handler
\* execution, the same response, and the store is left alone by the gate.
C15_CachedValuesIgnored ==
    [][\A c \in Clients :
         /\ AdminGateStep(c) =>
              /\ UNCHANGED <<store, session>>
              /\ \A sess \in SessionVariants(session[c]) :
                   /\ admin_gate_of(sess) = "login" <=>
                         (ev'.client = c /\ ev'.kind = "redirect" /\ ev'.target = "login")
                   /\ admin_gate_of(sess) = "denied" <=>
                         (ev'.client = c /\ ev'.flash = denied_flash)
                   /\ admin_gate_of(sess) = "pass" <=>
                         \/ pc'[c] = "gated"
                         \/ ev'.client = c /\ ev'.kind \in {"render", "abort"}
         /\ (GateStep(c) /\ ev'.route \notin AdminRoutes) =>
              /\ UNCHANGED <<store, session>>
              /\ \A sess \in SessionVariants(session[c]) :
                   ("user_id" \in DOMAIN sess) <=>
                      ~(ev'.kind = "redirect" /\ ev'.target = "login")
         /\ (Running(c, "user_delete", "gated") /\ user_delete_load(c)) =>
              /\ UNCHANGED <<store, session>>
              /\ \A sess \in SessionVariants(session[c]) :
                   (form_get(sess, "user_id", 0) = req[c].id) <=>
                      (ev'.flash = self_delete_flash)]_vars

\* an admin request answered for a session whose cached username is stale
C15_Witness ==
    /\ ev.route \in AdminRoutes
    /\ logged_in(ev.client)
    /\ session_user(ev.client) # None
    /\ session[ev.client].username # session_user(ev.client).username
    /\ session[ev.client].role # session_user(ev.client).role

\* C16: the delete of a user row leaves the sessions of that user as they
\* are; a logged-in session whose user row is gone still has the handlers of
\* the session-gated routes run, and every admin-only request of it is
\* answered by the denial and the redirect to the index (which sends a
\* logged-in session on to the notification list), the store unchanged.
C16_DeletedUserSession ==
    [][\A c \in Clients :
         /\ \A e \in Clients :
              (/\ user_delete_commit(e)
               /\ logged_in(c)
               /\ session[c].user_id = loaded[e].id) =>
                 /\ session'[c] = session[c]
                 /\ session_user(c)' = None
         /\ (logged_in(c) /\ session_user(c) = None) =>
              /\ (GateStep(c) /\ ev'.route \notin AdminRoutes) =>
                   /\ ~(ev'.kind = "redirect" /\ ev'.target = "login")
                   /\ ev'.route = "index" =>
                        ev'.kind = "redirect" /\ ev'.target = "notifications"
                   /\ ev'.route = "notifications" =>
                        ev'.kind = "render" /\ ev'.list = order_by_id_desc(notifications)
                   /\ ev'.route \in {"notification_detail", "user_detail"} =>
                        ev'.kind \in {"render", "abort"}
                   /\ UNCHANGED <<store, session>>
              /\ AdminGateStep(c) =>
                   /\ ev'.kind = "redirect" /\ ev'.target = "index"
                   /\ ev'.flash = denied_flash
                   /\ pc'[c] = "idle"
                   /\ UNCHANGED <<store, session>>]_vars

C16_Witness ==
    /\ ev.route \in AdminRoutes
    /\ ev.flash = denied_flash
    /\ logged_in(ev.client)
    /\ session_user(ev.client) = None

\* C17: a login POST leaves the store unchanged; one that fails (as every one
\* does whose username and password match no row) leaves every session as it
\* was; one that succeeds sets the client's session to exactly the user_id,
\* username and role of a row with the submitted credentials, also when the
\* client was logged in before.
C17_LoginFrame ==
    [][\A c \in Clients, form \in LoginForms :
         login(c, "POST", form) =>
           /\ UNCHANGED store
           /\ Credentials(form) = {} => ev'.flash = login_failure_flash
           /\ IF ev'.flash = login_failure_flash
              THEN /\ ev'.kind = "render"
                   /\ session' = session
              ELSE /\ ev'.kind = "redirect"
                   /\ \E u \in Credentials(form) :
                        session' = [session EXCEPT ![c] =
                                      [user_id |-> u.id, username |-> u.username,
                                       role |-> u.role]]]_vars

\* a failed login answered to a client that is still logged in
C17_Witness ==
    /\ ev.route = "login"
    /\ ev.flash = login_failure_flash
    /\ logged_in(ev.client)

ReadOnlyRoutes ==
    {"login", "logout", "index", "notifications", "notification_detail",
     "users", "user_detail"}

\* C18: a step that changes the users or the notifications table ends a POST
\* request on an add, edit or delete route; every step of login, logout,
\* index, the lists and details, and every request answered at GET leaves
\* both tables unchanged.
C18_OnlyPostsWrite ==
    [][/\ tables' # tables =>
            \E c \in Clients :
              /\ req[c] # None
              /\ req[c].method = "POST"
              /\ req[c].route \in AdminRoutes \ {"users"}
              /\ ev'.client = c /\ ev'.route = req[c].route
       /\ ev'.route \in ReadOnlyRoutes => UNCHANGED tables
       /\ \A c \in Clients :
            (/\ Idle(c)
             /\ ev'.client = c
             /\ \E r \in AdminRequests : r.method = "GET" /\ admin_required(c, r)) =>
               UNCHANGED tables]_vars

\* the edit form of an existing row, rendered at GET in a run that also has
\* a POST past the gate
C18_Witness ==
    /\ ev.route \in {"notification_edit", "user_edit"}
    /\ ev.kind = "render"
    /\ ev.list # <<>>
    /\ nreq > 0

====
